---- MODULE Spec2Model ----
(***************************************************************************)
(* Half-duplex chat adapter: the turn-generator wrapper                    *)
(* (createHalfDuplexChatAdapter.ts) driving one engine instance            *)
(* (DirectToEngineServerSentEventsChatAdapterAPI) against a server that    *)
(* answers each HTTP attempt in any way the code accepts or rejects.  The   *)
(* engine is constructed with a telemetry client.                          *)
(*                                                                         *)
(* One conversation is modelled: the consumer calls the start function,    *)
(* pulls the wrapped stream, receives the next-turn handle, invokes        *)
(* handles (also stale ones, also while an invocation is still pending),   *)
(* and so on.  Every await of the source is a step boundary.               *)
(***************************************************************************)
EXTENDS Integers, Sequences, FiniteSets, TLC

(***************************************************************************)
(* Bounds of the exploration (not program constants).                      *)
(***************************************************************************)
MaxTurns == 2       \* user turns the consumer starts in one conversation
MaxHops == 2        \* REST hops of one turn answered in every possible way
MaxActs == 1        \* activities in one REST response
MaxEvents == 2      \* events in one SSE response body
MaxStale == 1       \* invocations of already obsoleted handles
MaxPosts == 3       \* postActivity() subscriptions on one facade
MaxPumped == 2      \* activities in one stream the facade pumps
MaxLatePulls == 1   \* next() calls on a wrapped stream that is over
MaxConversations == 2   \* calls of the start function of one factory
MaxEndlessTurns == 1    \* user turns the server may answer without end

(***************************************************************************)
(* Program constants.                                                      *)
(***************************************************************************)
RETRY_COUNT == 4
MAX_TURN == 1000

(***************************************************************************)
(* Values.                                                                 *)
(***************************************************************************)
Undefined == <<"undefined">>      \* the JavaScript value undefined
Absent == <<"absent">>            \* a header or field that is not present
EmptyString == <<>>
Id1 == <<"c", "1">>
Id2 == <<"c", "2">>
IdQ == <<"c", "?", "x">>

\* conversation ids a server may put in a response (strings, possibly empty)
ServerIds == {EmptyString, Id1, Id2, IdQ}

\* JavaScript truthiness of the #conversationId field
Truthy(id) == id # Undefined /\ id # EmptyString

StartBaseURL ==
    [origin |-> "http://test", dir |-> <<"/">>,
     search |-> <<"?", "api=start">>, hash |-> <<"#", "1">>]
ExecuteBaseURL ==
    [origin |-> "http://test", dir |-> <<"/">>,
     search |-> <<"?", "api=execute">>, hash |-> <<"#", "2">>]

Transports == {"rest", "server sent events"}
UserActivities == {"Morning."}

\* index of the first occurrence of ch in s, 0 when absent
RECURSIVE IndexOf(_, _, _)
IndexOf(s, ch, i) ==
    IF i > Len(s) THEN 0
    ELSE IF s[i] = ch THEN i
    ELSE IndexOf(s, ch, i + 1)

\* new URL(relativeURL, baseURL) for a relative reference without scheme:
\* the fragment starts at the first "#", the query at the first "?" before
\* it, and the remaining path replaces the last segment of the base path.
NewURL(relativeURL, baseURL) ==
    LET h == IndexOf(relativeURL, "#", 1)
        noHash == IF h = 0 THEN relativeURL ELSE SubSeq(relativeURL, 1, h - 1)
        frag == IF h = 0 THEN <<>> ELSE SubSeq(relativeURL, h, Len(relativeURL))
        q == IndexOf(noHash, "?", 1)
        path == IF q = 0 THEN noHash ELSE SubSeq(noHash, 1, q - 1)
        query == IF q = 0 THEN <<>> ELSE SubSeq(noHash, q, Len(noHash))
    IN  [origin |-> baseURL.origin,
         pathname |-> baseURL.dir \o path,
         search |-> query,
         hash |-> frag]

resolveURLWithQueryAndHash_PathOnly(relativeURL, baseURL) ==
    NewURL(relativeURL, baseURL)
resolveURLWithQueryAndHash(relativeURL, baseURL) ==
    LET url == NewURL(relativeURL, baseURL)
    IN  [url EXCEPT !.hash = baseURL.hash, !.search = baseURL.search]

\* the template string `conversations/${this.#conversationId || ''}`
RelativeURL(id) == <<"conversations/">> \o (IF Truthy(id) THEN id ELSE <<>>)

(***************************************************************************)
(* State.                                                                  *)
(***************************************************************************)
VARIABLES
    emitStartConversationEvent, \* init.emitStartConversationEvent ?? true
    conversationId,     \* the engine's #conversationId
    obsoleted,          \* per handle: the closure variable of createExecuteTurn
    invocations,        \* per handle: calls of the handle by the consumer
    engineCalls,        \* per handle: calls of api.executeTurn it made
    rejections,         \* per handle: calls rejected as obsoleted
    turnNo,             \* user turns started so far
    kind,               \* "none", "start" or "execute": the current stream
    pc,                 \* where the current stream stands
    userActivity,       \* argument of the current executeTurn
    prep,               \* what the strategy returned for the current turn
    withBody,           \* #postWithREST: let withBody
    numTurn,            \* #postWithREST: loop counter
    attempts,           \* attempts made for the current request
    currentResponse,    \* status of let currentResponse, 0 when unassigned
    errors,             \* errors of the failed attempts of the current request
    botAction,          \* botResponse.action of the current hop
    buffer,             \* botResponse.activities not yet yielded
    eventsRead,         \* events consumed from the SSE body
    eventLog,           \* the events consumed from the SSE body, in order
    received,           \* activities of the REST responses of this turn
    pulls,              \* next() calls on the current wrapped stream
    engineOut,          \* activities the engine stream yielded this turn
    delivered,          \* activities the wrapped stream yielded this turn
    error,              \* the error the current stream failed with
    handleError,        \* message of the latest rejection by a handle
    prepareCalls,       \* calls of the two strategy methods so far
    trackException,     \* calls of telemetry.trackException so far
    lastRequest         \* the most recent fetch() of the conversation

\* the chat-adapter facade and the port { execute, initialActivities } it is
\* built on
VARIABLES
    facadePc,           \* what the facade is doing
    connectionStatus,   \* values emitted on connectionStatus$ so far
    connectionStatusComplete,
    activityEmitted,    \* activities emitted on activity$ so far
    activityComplete,
    postActivity,       \* one record per postActivity() subscription
    current,            \* the post being served, 0 when none
    executeCalls,       \* calls of execute so far
    executeThrew,       \* what execute or its stream threw, "" when nothing
    cachedError,        \* the error the facade keeps, "" when none
    pumped,             \* activities taken from the stream being pumped
    inFlight,           \* posts whose execute call or stream is in flight
    executeOrder        \* the posts execute was called for, in call order

facadeVars == <<facadePc, connectionStatus, connectionStatusComplete,
                activityEmitted, activityComplete, postActivity, current,
                executeCalls, executeThrew, cachedError, pumped, inFlight,
                executeOrder>>

engineVars ==
    <<emitStartConversationEvent, conversationId, obsoleted, invocations,
      engineCalls, rejections, turnNo, kind, pc, userActivity, prep,
      withBody, numTurn, attempts, currentResponse, errors, botAction,
      buffer, eventsRead, eventLog, received, pulls, engineOut,
      delivered, error, handleError, prepareCalls, trackException,
      lastRequest>>

\* conversations started from one createHalfDuplexChatAdapter factory
VARIABLES
    api,                \* #conversationId of each engine constructed
    conversations,      \* one record per call of the start function
    sent                \* the most recent fetch() of any conversation

factoryVars == <<api, conversations, sent>>

vars == <<engineVars, facadeVars, factoryVars>>

handleVars == <<obsoleted, invocations, engineCalls, rejections, handleError>>
requestVars == <<withBody, numTurn, attempts, currentResponse, errors,
                 botAction, buffer, eventsRead, eventLog, received>>

NoError == [kind |-> "none", message |-> "", attempt |-> 0, response |-> 0]
NoPrep == [baseURL |-> StartBaseURL, transport |-> "none", body |-> {}]

Conversations == 1..MaxConversations

NoConversation ==
    [pc |-> "none", kind |-> "none", transport |-> "none",
     handle |-> "none", requested |-> FALSE]

NoSent ==
    [issued |-> FALSE, conversation |-> 0, first |-> FALSE,
     pathname |-> <<>>, conversationIdHeader |-> Absent,
     idAtIssue |-> Undefined]

NoRequest ==
    [issued |-> FALSE, url |-> resolveURLWithQueryAndHash(<<>>, StartBaseURL),
     conversationIdHeader |-> Absent, accept |-> Absent, body |-> {},
     idAtIssue |-> Undefined, kind |-> "none", turnNo |-> 0, numTurn |-> 0,
     transport |-> "none"]

Init ==
    /\ emitStartConversationEvent \in BOOLEAN
    /\ conversationId = Undefined
    /\ obsoleted = <<>>
    /\ invocations = <<>>
    /\ engineCalls = <<>>
    /\ rejections = <<>>
    /\ turnNo = 0
    /\ kind = "none"
    /\ pc = "none"
    /\ userActivity = "none"
    /\ prep = NoPrep
    /\ withBody = TRUE
    /\ numTurn = 0
    /\ attempts = 0
    /\ currentResponse = 0
    /\ errors = <<>>
    /\ botAction = "none"
    /\ buffer = <<>>
    /\ eventsRead = 0
    /\ eventLog = <<>>
    /\ received = <<>>
    /\ pulls = 0
    /\ trackException = <<>>
    /\ engineOut = <<>>
    /\ delivered = <<>>
    /\ error = NoError
    /\ handleError = ""
    /\ prepareCalls = [start |-> 0, execute |-> 0]
    /\ lastRequest = NoRequest
    /\ facadePc = "new"
    /\ connectionStatus = <<>>
    /\ connectionStatusComplete = FALSE
    /\ activityEmitted = <<>>
    /\ activityComplete = FALSE
    /\ postActivity = <<>>
    /\ current = 0
    /\ executeCalls = 0
    /\ executeThrew = ""
    /\ cachedError = ""
    /\ pumped = 0
    /\ inFlight = {}
    /\ executeOrder = <<>>
    /\ api = [e \in Conversations |-> Undefined]
    /\ conversations = [c \in Conversations |-> NoConversation]
    /\ sent = NoSent

(***************************************************************************)
(* Errors.                                                                 *)
(***************************************************************************)
StatusText(status) ==
    CASE status = 404 -> "404"
      [] status = 500 -> "500"
      [] OTHER -> "other"

\* an error thrown by attempt number attempts + 1 while the most recent
\* response of the request has status `response` (0: none received yet)
MkError(k, msg, response) ==
    [kind |-> k, message |-> msg, attempt |-> attempts + 1,
     response |-> response]

\* an error thrown outside the request phase
StreamError(k, msg) ==
    [kind |-> k, message |-> msg, attempt |-> 0, response |-> 0]

ObsoletedError ==
    "This executeTurn() function is obsoleted. Please use a new one."
MustStartError ==
    "startNewConversation() must be called before executeTurn()."
ServerReturnedError(status) ==
    MkError("status", "Server returned " \o StatusText(status)
                         \o " while calling the service.", status)
NetworkError == MkError("network", "fetch failed", currentResponse)
JSONSyntaxError == MkError("json", "Unexpected token in JSON", 200)
BotResponseShapeError == MkError("shape", "Invalid BotResponse", 200)
ContentTypeError ==
    MkError("contentType",
            "Server did not respond with content type of text/event-stream",
            200)
NoBodyError == MkError("noBody", "Server did not respond with body.", 200)

(***************************************************************************)
(* The wrapper: createHalfDuplexChatAdapter and createExecuteTurn.         *)
(***************************************************************************)
ResetTurn ==
    /\ prep' = NoPrep
    /\ withBody' = TRUE
    /\ numTurn' = 0
    /\ attempts' = 0
    /\ currentResponse' = 0
    /\ errors' = <<>>
    /\ botAction' = "none"
    /\ buffer' = <<>>
    /\ eventsRead' = 0
    /\ eventLog' = <<>>
    /\ received' = <<>>
    /\ pulls' = 0
    /\ engineOut' = <<>>
    /\ delivered' = <<>>
    /\ error' = NoError

\* the start function: new engine, api.startNewConversation(...), then the
\* await before the wrapped generator is returned.  The engine call only
\* creates the generator object, its body has not started.
StartConversation_Eager ==
    /\ UNCHANGED <<facadeVars, factoryVars>>
    /\ kind = "none"
    /\ kind' = "start"
    /\ pc' = "prepare"
    /\ conversationId' = Undefined
    /\ userActivity' = "none"
    /\ ResetTurn
    /\ prepareCalls' = [prepareCalls EXCEPT !["start"] = @ + 1]
    /\ UNCHANGED trackException
    /\ UNCHANGED <<emitStartConversationEvent, handleVars, turnNo,
                   lastRequest>>
StartConversation ==
    /\ UNCHANGED <<facadeVars, factoryVars>>
    /\ kind = "none"
    /\ kind' = "start"
    /\ pc' = "awaitWrap"
    /\ conversationId' = Undefined
    /\ userActivity' = "none"
    /\ ResetTurn
    /\ UNCHANGED trackException
    /\ UNCHANGED <<emitStartConversationEvent, prepareCalls,
                   handleVars, turnNo, lastRequest>>

\* the closure variable after a handle's first invocation
ObsoletedAfterCall_Kept(flag) == flag
ObsoletedAfterCall(flag) == TRUE

\* rejected invocations of the handles r[i..Len(r)] so far
RECURSIVE RejectionsFrom(_, _)
RejectionsFrom(r, i) ==
    IF i > Len(r) THEN 0 ELSE r[i] + RejectionsFrom(r, i + 1)

\* a handle called by the consumer: the synchronous part of the async
\* function, up to the await of api.executeTurn(activity)
InvokeHandle(h, activity) ==
    /\ UNCHANGED <<facadeVars, factoryVars>>
    /\ h \in 1..Len(obsoleted)
    /\ invocations' = [invocations EXCEPT ![h] = @ + 1]
    /\ IF obsoleted[h]
       THEN /\ RejectionsFrom(rejections, 1) < MaxStale
            /\ rejections' = [rejections EXCEPT ![h] = @ + 1]
            /\ handleError' = ObsoletedError
            /\ UNCHANGED <<obsoleted, engineCalls, turnNo, kind, pc,
                           userActivity, prep, requestVars, pulls,
                           engineOut, delivered, error>>
       ELSE /\ turnNo < MaxTurns
            /\ obsoleted' = [obsoleted EXCEPT ![h] = ObsoletedAfterCall(@)]
            /\ engineCalls' = [engineCalls EXCEPT ![h] = @ + 1]
            /\ turnNo' = turnNo + 1
            /\ kind' = "execute"
            /\ pc' = "awaitWrap"
            /\ userActivity' = activity
            /\ ResetTurn
            /\ UNCHANGED <<rejections, handleError>>
    /\ UNCHANGED trackException
    /\ UNCHANGED <<emitStartConversationEvent, prepareCalls,
                   conversationId, lastRequest>>

\* the awaited engine stream is wrapped and handed to the caller
ResolveWrap ==
    /\ UNCHANGED <<facadeVars, factoryVars>>
    /\ pc = "awaitWrap"
    /\ pc' = "created"
    /\ UNCHANGED trackException
    /\ UNCHANGED <<emitStartConversationEvent, prepareCalls,
                   conversationId, handleVars,
                   turnNo, kind, userActivity, prep, requestVars, pulls,
                   engineOut, delivered, error, lastRequest>>

\* the wrapped generator returns createExecuteTurn(api) once yield* is over
ReturnHandle_Reused ==
    /\ pc' = "done"
    /\ obsoleted' = Append(obsoleted, TRUE)
    /\ invocations' = Append(invocations, 1)
    /\ engineCalls' = Append(engineCalls, 1)
    /\ rejections' = Append(rejections, 0)
    /\ UNCHANGED handleError
ReturnHandle ==
    /\ pc' = "done"
    /\ obsoleted' = Append(obsoleted, FALSE)
    /\ invocations' = Append(invocations, 0)
    /\ engineCalls' = Append(engineCalls, 0)
    /\ rejections' = Append(rejections, 0)
    /\ UNCHANGED handleError

\* the wrapped generator rethrows what the engine stream threw: the return
\* statement after yield* is not reached
Throw_ThenHandle(e) ==
    /\ pc' = "failed"
    /\ error' = e
    /\ obsoleted' = Append(obsoleted, FALSE)
    /\ invocations' = Append(invocations, 0)
    /\ engineCalls' = Append(engineCalls, 0)
    /\ rejections' = Append(rejections, 0)
    /\ UNCHANGED handleError
Throw(e) ==
    /\ pc' = "failed"
    /\ error' = e
    /\ UNCHANGED handleVars

\* yield* activities: one activity passes from the engine stream to the
\* consumer of the wrapped stream, and both generators are suspended until
\* the next pull
YieldActivity_NotSuspended(activity) ==
    /\ engineOut' = Append(engineOut, activity)
    /\ delivered' = Append(delivered, activity)
    /\ pc' = "deliver"
    /\ UNCHANGED <<handleVars, error>>
YieldActivity(activity) ==
    /\ engineOut' = Append(engineOut, activity)
    /\ delivered' = Append(delivered, activity)
    /\ pc' = "yielded"
    /\ UNCHANGED <<handleVars, error>>

(***************************************************************************)
(* The engine: startNewConversation, executeTurn, #post.                   *)
(***************************************************************************)
\* executeTurn: if (!this.#conversationId) throw ...
MustStartFirst_Never(id) == FALSE
MustStartFirst(id) == ~Truthy(id)

\* await this.#strategy.prepareStartNewConversation() in
\* startNewConversation, await this.#strategy.prepareExecuteTurn() in
\* executeTurn: the call counted under the method's name
StrategyCalls_BothStart(calls, k) == [calls EXCEPT !["start"] = @ + 1]
StrategyCalls(calls, k) == [calls EXCEPT ![k] = @ + 1]

\* next() on the wrapped stream.  The first pull enters the engine
\* generator: executeTurn checks the id, then the strategy is consulted.
Pull ==
    /\ UNCHANGED <<facadeVars, factoryVars>>
    /\ pc \in {"created", "yielded"}
    /\ pulls' = pulls + 1
    /\ IF pc = "yielded"
       THEN pc' = "deliver" /\ UNCHANGED <<error, prepareCalls>>
       ELSE IF kind = "execute" /\ MustStartFirst(conversationId)
            THEN /\ pc' = "failed"
                 /\ error' = StreamError("usage", MustStartError)
                 /\ UNCHANGED prepareCalls
            ELSE /\ pc' = "prepare"
                 /\ prepareCalls' = StrategyCalls(prepareCalls, kind)
                 /\ UNCHANGED error
    /\ UNCHANGED trackException
    /\ UNCHANGED <<emitStartConversationEvent, conversationId, handleVars,
                   turnNo, kind, userActivity, prep, requestVars, engineOut,
                   delivered, lastRequest>>

StrategyBody == {<<"dummy", "dummy">>}

\* prepareStartNewConversation() / prepareExecuteTurn() resolve, the body is
\* merged and #post picks the transport
Prepare ==
    /\ UNCHANGED <<facadeVars, factoryVars>>
    /\ pc = "prepare"
    /\ \E transport \in Transports :
         prep' = [baseURL |-> IF kind = "start" THEN StartBaseURL
                                               ELSE ExecuteBaseURL,
                  transport |-> transport,
                  body |-> IF kind = "start"
                           THEN StrategyBody \cup
                                {<<"emitStartConversationEvent",
                                   IF emitStartConversationEvent
                                   THEN "true" ELSE "false">>}
                           ELSE StrategyBody \cup
                                {<<"activity", userActivity>>}]
    /\ pc' = "request"
    /\ UNCHANGED trackException
    /\ UNCHANGED <<emitStartConversationEvent, prepareCalls,
                   conversationId, handleVars,
                   turnNo, kind, userActivity, requestVars, pulls, engineOut,
                   delivered, error, lastRequest>>

\* next() on a generator that has returned or thrown resolves to
\* { done: true, value: undefined }: nothing more reaches the consumer
FinishedResult_LastValue(out) ==
    IF out = <<>> THEN out ELSE Append(out, out[Len(out)])
FinishedResult(out) == out

\* the consumer pulls a wrapped stream that has ended or failed
PullFinished ==
    /\ UNCHANGED <<facadeVars, factoryVars>>
    /\ pc \in {"done", "failed"}
    /\ pulls < Len(delivered) + 1 + MaxLatePulls
    /\ pulls' = pulls + 1
    /\ delivered' = FinishedResult(delivered)
    /\ UNCHANGED trackException
    /\ UNCHANGED <<emitStartConversationEvent, prepareCalls, conversationId,
                   handleVars, turnNo, kind, pc, userActivity, prep,
                   requestVars, engineOut, error, lastRequest>>

(***************************************************************************)
(* p-retry around one request.                                             *)
(***************************************************************************)
\* onFailedAttempt: rethrows, which aborts the retries, when the most
\* recent response of this request has a status below 500
onFailedAttempt_Below400(response) == response # 0 /\ response < 400
onFailedAttempt_Only4xx(response) == response >= 400 /\ response < 500
onFailedAttempt_AnyResponse(response) == response # 0
onFailedAttempt(response) == response # 0 /\ response < 500

\* how often the message of errs[i] occurs in errs[1..i]
MessageCount(errs, i) ==
    Cardinality({j \in 1..i : errs[j].message = errs[i].message})

\* what pRetry rejects with once the retries are used up: the error whose
\* message occurred most often, the latest one on a tie
RECURSIVE MainErrorFrom(_, _, _, _)
MainErrorFrom(errs, i, best, bestCount) ==
    IF i > Len(errs) THEN best
    ELSE IF MessageCount(errs, i) >= bestCount
         THEN MainErrorFrom(errs, i + 1, errs[i], MessageCount(errs, i))
         ELSE MainErrorFrom(errs, i + 1, best, bestCount)

mainError(errs) == MainErrorFrom(errs, 1, NoError, 0)

\* attempts pRetry makes at most: the first one and `retries` more
MaxAttempts_NoFirst == RETRY_COUNT
MaxAttempts == RETRY_COUNT + 1

\* one attempt threw e: onFailedAttempt runs, then pRetry retries or rejects
\* telemetry && promise.catch(error => error instanceof Error &&
\*   telemetry.trackException({ error }, { handledAt, retryCount })),
\* with a telemetry client configured; every rejection of pRetry is an Error
Reported(log, e) ==
    Append(log, [error |-> e, handledAt |-> "withRetries",
                 retryCount |-> ToString(RETRY_COUNT + 1)])

FailedAttempt(e) ==
    /\ errors' = Append(errors, e)
    /\ IF onFailedAttempt(e.response)
       THEN /\ Throw(e)
            /\ trackException' = Reported(trackException, e)
       ELSE IF attempts + 1 >= MaxAttempts
            THEN /\ Throw(mainError(Append(errors, e)))
                 /\ trackException' =
                      Reported(trackException,
                               mainError(Append(errors, e)))
            ELSE /\ pc' = "request"
                 /\ UNCHANGED <<error, handleVars, trackException>>

\* ...(this.#conversationId ? { 'x-ms-conversationid': id } : {})
ConversationIdHeader_Always(id) == id
ConversationIdHeader(id) == IF Truthy(id) THEN id ELSE Absent

\* body: JSON.stringify(withBody ? body : {}) in #postWithREST,
\* JSON.stringify(body) in #postWithServerSentEvents
RequestBody_Always(sse, flag, body) == body
RequestBody(sse, flag, body) == IF sse \/ flag THEN body ELSE {}

\* the fetch() both transports issue
Fetch(sse) ==
    [issued |-> TRUE,
     url |-> resolveURLWithQueryAndHash(RelativeURL(conversationId),
                                        prep.baseURL),
     conversationIdHeader |-> ConversationIdHeader(conversationId),
     accept |-> IF sse THEN <<"text/event-stream">> ELSE Absent,
     body |-> RequestBody(sse, withBody, prep.body),
     idAtIssue |-> conversationId,
     kind |-> kind,
     turnNo |-> turnNo,
     numTurn |-> numTurn,
     transport |-> prep.transport]

ErrorStatuses == {404, 500}

(***************************************************************************)
(* REST.                                                                   *)
(***************************************************************************)
\* JSON values a server may send as the body of a 200 response
BotResponses ==
    [action : {"continue", "waiting"},
     activities : 0..MaxActs,
     conversationId : {Undefined} \cup ServerIds]
NotABotResponse ==
    [action |-> "missing", activities |-> 0, conversationId |-> Undefined]

\* parseBotResponse accepts a value of the BotResponse shape
parseBotResponse(value) == value.action \in {"continue", "waiting"}

Activity(n, conversation) == [text |-> n, conversation |-> conversation]

\* the activities of one response, numbered on from those already yielded
Activities(count) ==
    [i \in 1..count |-> Activity(Len(engineOut) + i, Absent)]

\* if (botResponse.conversationId) this.#conversationId = ...
AdoptFromBotResponse_Guarded(id, responseId) ==
    IF Truthy(responseId) /\ ~Truthy(id) THEN responseId ELSE id
AdoptFromBotResponse(id, responseId) ==
    IF Truthy(responseId) THEN responseId ELSE id

\* one attempt of the request of the current hop
postWithRESTAttempt ==
    /\ UNCHANGED <<facadeVars, factoryVars>>
    /\ pc = "request"
    /\ prep.transport = "rest"
    /\ numTurn < MaxHops
    /\ attempts' = attempts + 1
    /\ lastRequest' = Fetch(FALSE)
    /\ \/ /\ FailedAttempt(NetworkError)
          /\ UNCHANGED <<currentResponse, conversationId, botAction, buffer,
                         received>>
       \/ \E status \in ErrorStatuses :
            /\ currentResponse' = status
            /\ FailedAttempt(ServerReturnedError(status))
            /\ UNCHANGED <<conversationId, botAction, buffer, received>>
       \/ /\ currentResponse' = 200
          /\ FailedAttempt(JSONSyntaxError)
          /\ UNCHANGED <<conversationId, botAction, buffer, received>>
       \/ \E value \in BotResponses \cup {NotABotResponse} :
            /\ currentResponse' = 200
            /\ IF ~parseBotResponse(value)
               THEN /\ FailedAttempt(BotResponseShapeError)
                    /\ UNCHANGED <<conversationId, botAction, buffer,
                                   received>>
               ELSE /\ value.action = "continue" => numTurn + 1 < MaxHops
                    /\ conversationId' =
                         AdoptFromBotResponse(conversationId,
                                              value.conversationId)
                    /\ botAction' = value.action
                    /\ buffer' = Activities(value.activities)
                    /\ received' = received \o Activities(value.activities)
                    /\ pc' = "deliver"
                    /\ errors' = <<>>
                    /\ UNCHANGED <<error, handleVars, trackException>>
    /\ UNCHANGED <<emitStartConversationEvent, prepareCalls,
                   turnNo, kind, userActivity, prep, withBody, numTurn,
                   eventsRead, eventLog, pulls, engineOut, delivered>>

\* one attempt answered by a server that says 'continue' forever: past the
\* hops explored in full, every request is answered at once with
\* { action: 'continue', activities: [] }
postWithRESTContinueForever ==
    /\ UNCHANGED <<facadeVars, factoryVars>>
    /\ pc = "request"
    /\ prep.transport = "rest"
    /\ numTurn + 1 >= MaxHops
    /\ turnNo <= MaxEndlessTurns
    /\ attempts' = attempts + 1
    /\ lastRequest' = Fetch(FALSE)
    /\ currentResponse' = 200
    /\ conversationId' = AdoptFromBotResponse(conversationId, Undefined)
    /\ botAction' = "continue"
    /\ buffer' = Activities(0)
    /\ received' = received \o Activities(0)
    /\ pc' = "deliver"
    /\ errors' = <<>>
    /\ UNCHANGED <<error, handleVars>>
    /\ UNCHANGED trackException
    /\ UNCHANGED <<emitStartConversationEvent, prepareCalls,
                   turnNo, kind, userActivity, prep, withBody, numTurn,
                   eventsRead, eventLog, pulls, engineOut, delivered>>

\* the loop goes on after hop number n (from 0): no break on
\* botResponse.action !== 'continue', and numTurn++ stays below MAX_TURN
AnotherHop_NoCeiling(action, n) == action = "continue"
AnotherHop_Unconditional(action, n) == n + 1 < MAX_TURN
AnotherHop(action, n) == action = "continue" /\ n + 1 < MAX_TURN

\* let currentResponse is declared in the loop body: every hop starts with
\* the variable unassigned
NextHopResponse_Kept(response) == response
NextHopResponse(response) == 0

\* pRetry is called anew in every iteration: its attempt count starts over
NextHopAttempts(n) == 0

\* the consumer's pull goes on: the next activity of the response is
\* yielded, or the hop is over and the loop continues or breaks
postWithRESTDeliver ==
    /\ UNCHANGED <<facadeVars, factoryVars>>
    /\ pc = "deliver"
    /\ prep.transport = "rest"
    /\ IF buffer # <<>>
       THEN /\ YieldActivity(Head(buffer))
            /\ buffer' = Tail(buffer)
            /\ UNCHANGED <<withBody, numTurn, attempts, currentResponse,
                           errors>>
       ELSE /\ withBody' = FALSE
            /\ IF AnotherHop(botAction, numTurn)
               THEN /\ numTurn' = numTurn + 1
                    /\ pc' = "request"
                    /\ attempts' = NextHopAttempts(attempts)
                    /\ currentResponse' = NextHopResponse(currentResponse)
                    /\ errors' = <<>>
                    /\ UNCHANGED handleVars
               ELSE /\ ReturnHandle
                    /\ UNCHANGED <<numTurn, attempts, currentResponse, errors>>
            /\ UNCHANGED <<buffer, engineOut, delivered, error>>
    /\ UNCHANGED trackException
    /\ UNCHANGED <<emitStartConversationEvent, prepareCalls,
                   conversationId, turnNo, kind,
                   userActivity, prep, botAction, eventsRead, eventLog,
                   received, pulls, lastRequest>>

(***************************************************************************)
(* Server-sent events.                                                     *)
(***************************************************************************)
\* content-type headers a server may answer with (<<>>: no such header)
ContentTypes ==
    {<<"text/event-stream">>,
     <<"text/event-stream", ";", "charset=utf-8">>,
     <<"text/event-stream", "+x">>,
     <<"application/json">>,
     <<>>}

\* /^text\/event-stream(;|$)/.test(contentType || '')
IsEventStream(contentType) ==
    /\ Len(contentType) >= 1
    /\ contentType[1] = "text/event-stream"
    /\ (Len(contentType) = 1 \/ contentType[2] = ";")

\* one attempt of the single request of an SSE turn
postWithServerSentEventsAttempt ==
    /\ UNCHANGED <<facadeVars, factoryVars>>
    /\ pc = "request"
    /\ prep.transport = "server sent events"
    /\ attempts' = attempts + 1
    /\ lastRequest' = Fetch(TRUE)
    /\ \/ /\ FailedAttempt(NetworkError)
          /\ UNCHANGED currentResponse
       \/ \E status \in ErrorStatuses :
            /\ currentResponse' = status
            /\ FailedAttempt(ServerReturnedError(status))
       \/ \E contentType \in ContentTypes, hasBody \in BOOLEAN :
            /\ currentResponse' = 200
            /\ IF ~IsEventStream(contentType)
               THEN FailedAttempt(ContentTypeError)
               ELSE IF ~hasBody
                    THEN FailedAttempt(NoBodyError)
                    ELSE /\ pc' = "deliver"
                         /\ errors' = <<>>
                         /\ UNCHANGED <<error, handleVars, trackException>>
    /\ UNCHANGED <<emitStartConversationEvent, prepareCalls,
                   conversationId, turnNo, kind,
                   userActivity, prep, withBody, numTurn, botAction, buffer,
                   eventsRead, eventLog, received, pulls, engineOut,
                   delivered>>

\* what the data of an "activity" event may be: text that is not JSON, or
\* the JSON of an activity without a conversation field, with a conversation
\* without id, or with a conversation id
ActivityData ==
    {[json |-> FALSE, conversation |-> Absent]} \cup
    [json : {TRUE}, conversation : {Absent, Undefined, Id1, Id2}]

Events ==
    [event : {"activity"}, data : ActivityData] \cup
    [event : {"end", "ping"},
     data : {[json |-> FALSE, conversation |-> Absent]}]

\* if (!this.#conversationId) this.#conversationId = activity.conversation.id
AdoptFromActivity_Always(id, activityId) == activityId
AdoptFromActivity(id, activityId) ==
    IF ~Truthy(id) THEN activityId ELSE id

\* an error thrown by the transform or while the body is read: it leaves
\* the generator, the request is not made again
BodyError_Retried(e) ==
    /\ pc' = "request"
    /\ UNCHANGED <<error, handleVars>>
BodyError(e) == Throw(e)

\* the consumer's pull goes on: the next event of the body goes through the
\* transform, or the body is over
postWithServerSentEventsRead ==
    /\ UNCHANGED <<facadeVars, factoryVars>>
    /\ pc = "deliver"
    /\ prep.transport = "server sent events"
    /\ \/ \* the body ends without an "end" event
          /\ ReturnHandle
          /\ UNCHANGED <<conversationId, eventsRead, eventLog, engineOut,
                         delivered, error>>
       \/ \E ev \in Events :
            /\ eventsRead < MaxEvents
            /\ eventsRead' = eventsRead + 1
            /\ eventLog' = Append(eventLog, ev)
            /\ CASE ev.event = "end" ->
                      /\ ReturnHandle
                      /\ UNCHANGED <<conversationId, engineOut, delivered,
                                     error>>
                 [] ev.event = "activity" ->
                      IF ~ev.data.json
                      THEN /\ BodyError(StreamError("sseJson",
                                             "Unexpected token in JSON"))
                           /\ UNCHANGED <<conversationId, engineOut,
                                          delivered>>
                      ELSE IF ~Truthy(conversationId)
                              /\ ev.data.conversation = Absent
                           THEN /\ BodyError(StreamError("typeError",
                                       "Cannot read properties of undefined"))
                                /\ UNCHANGED <<conversationId, engineOut,
                                               delivered>>
                           ELSE /\ conversationId' =
                                     AdoptFromActivity(conversationId,
                                                       ev.data.conversation)
                                /\ YieldActivity(
                                     Activity(Len(engineOut) + 1,
                                              ev.data.conversation))
                 [] OTHER ->
                      /\ pc' = "deliver"
                      /\ UNCHANGED <<conversationId, engineOut, delivered,
                                     error, handleVars>>
    /\ UNCHANGED trackException
    /\ UNCHANGED <<emitStartConversationEvent, prepareCalls,
                   turnNo, kind, userActivity,
                   prep, withBody, numTurn, attempts, currentResponse, errors,
                   botAction, buffer, received, pulls, lastRequest>>

(***************************************************************************)
(* The conversation.                                                       *)
(***************************************************************************)
Next ==
    \/ StartConversation
    \/ \E h \in 1..(MaxTurns + 1), activity \in UserActivities :
         InvokeHandle(h, activity)
    \/ ResolveWrap
    \/ Pull
    \/ PullFinished
    \/ Prepare
    \/ postWithRESTAttempt
    \/ postWithRESTDeliver
    \/ postWithServerSentEventsAttempt
    \/ postWithServerSentEventsRead

Spec == Init /\ [][Next]_vars

\* the same conversation against a server that may answer 'continue'
\* forever in the start turn and the first MaxEndlessTurns user turns, with
\* a consumer that stops pulling a stream once it is over
NextCeiling ==
    \/ StartConversation
    \/ \E h \in 1..(MaxTurns + 1), activity \in UserActivities :
         InvokeHandle(h, activity)
    \/ ResolveWrap
    \/ Pull
    \/ Prepare
    \/ postWithRESTAttempt
    \/ postWithRESTContinueForever
    \/ postWithRESTDeliver
    \/ postWithServerSentEventsAttempt
    \/ postWithServerSentEventsRead

SpecCeiling == Init /\ [][NextCeiling]_vars

(***************************************************************************)
(* The chat-adapter facade (TurnBasedChatAdapter) over the port             *)
(* { execute, initialActivities }: the start callable and execute are the  *)
(* caller's, the streams they give yield activities, end or throw.         *)
(***************************************************************************)
\* what execute or one of its streams may throw
FacadeErrors ==
    {"artificial", "Server returned 500 while calling the service."}

Pending == [outcome |-> "pending", error |-> ""]
Errored(e) == [outcome |-> "error", error |-> e]
Succeeded == [outcome |-> "id", error |-> ""]

PendingPosts ==
    {i \in DOMAIN postActivity : postActivity[i].outcome = "pending"}

\* the first subscription: Uninitialized and Connecting are emitted and the
\* start callable is called
Subscribe ==
    /\ facadePc = "new"
    /\ facadePc' = "starting"
    /\ connectionStatus' =
         connectionStatus \o <<"Uninitialized", "Connecting">>
    /\ UNCHANGED <<connectionStatusComplete, activityEmitted,
                   activityComplete, postActivity, current, executeCalls,
                   executeThrew, cachedError, pumped, inFlight,
                   executeOrder>>
    /\ UNCHANGED <<engineVars, factoryVars>>

\* the start callable resolves with { execute, initialActivities }
StartResolves ==
    /\ facadePc = "starting"
    /\ facadePc' = "initial"
    /\ pumped' = 0
    /\ UNCHANGED <<connectionStatus, connectionStatusComplete,
                   activityEmitted, activityComplete, postActivity, current,
                   executeCalls, executeThrew, cachedError, inFlight,
                   executeOrder>>
    /\ UNCHANGED <<engineVars, factoryVars>>

\* Online is emitted once, with the first iteration of initialActivities
WithOnline_EveryIteration(status) == Append(status, "Online")
WithOnline(status) ==
    IF \E i \in DOMAIN status : status[i] = "Online"
    THEN status
    ELSE Append(status, "Online")

\* activity number n of the stream of turn t (0: initialActivities), as
\* activity$ emits it
Republished(t, n) == [turn |-> t, n |-> n]

\* one iteration of initialActivities: an activity is republished on
\* activity$, or the stream is over and the facade waits for posts
PumpInitialActivities ==
    /\ facadePc = "initial"
    /\ connectionStatus' = WithOnline(connectionStatus)
    /\ \/ /\ pumped < MaxPumped
          /\ pumped' = pumped + 1
          /\ activityEmitted' =
               Append(activityEmitted, Republished(0, pumped + 1))
          /\ facadePc' = "initial"
       \/ /\ facadePc' = "idle"
          /\ UNCHANGED <<pumped, activityEmitted>>
    /\ UNCHANGED <<connectionStatusComplete, activityComplete, postActivity,
                   current, executeCalls, executeThrew, cachedError,
                   inFlight, executeOrder>>
    /\ UNCHANGED <<engineVars, factoryVars>>

\* postActivity(activity).subscribe(observer): the post is queued, or it
\* errors at once with the cached error when the facade has failed
PostOutcome_Queued(phase, cached) == Pending
PostOutcome(phase, cached) ==
    IF phase = "failed" THEN Errored(cached) ELSE Pending

PostActivity ==
    /\ Len(postActivity) < MaxPosts
    /\ postActivity' =
         Append(postActivity, PostOutcome(facadePc, cachedError))
    /\ UNCHANGED <<facadePc, connectionStatus, connectionStatusComplete,
                   activityEmitted, activityComplete, current, executeCalls,
                   executeThrew, cachedError, pumped, inFlight,
                   executeOrder>>
    /\ UNCHANGED <<engineVars, factoryVars>>

\* the terminal failure: the pending posts error with e, FailedToConnect is
\* emitted, both streams complete and e is cached
Fail_StreamsLeftOpen(e) ==
    /\ facadePc' = "failed"
    /\ cachedError' = e
    /\ postActivity' =
         [i \in DOMAIN postActivity |->
            IF postActivity[i].outcome = "pending" THEN Errored(e)
                                                   ELSE postActivity[i]]
    /\ connectionStatus' = Append(connectionStatus, "FailedToConnect")
    /\ UNCHANGED <<connectionStatusComplete, activityComplete>>
    /\ inFlight' = {}
    /\ UNCHANGED <<activityEmitted, pumped>>
Fail(e) ==
    /\ facadePc' = "failed"
    /\ cachedError' = e
    /\ postActivity' =
         [i \in DOMAIN postActivity |->
            IF postActivity[i].outcome = "pending" THEN Errored(e)
                                                   ELSE postActivity[i]]
    /\ connectionStatus' = Append(connectionStatus, "FailedToConnect")
    /\ connectionStatusComplete' = TRUE
    /\ activityComplete' = TRUE
    /\ inFlight' = {}
    /\ UNCHANGED <<activityEmitted, pumped>>

\* the oldest queued post is served: execute(activity) is called and
\* returns a promise, or throws
CanExecute_WhilePumping(phase) == phase \in {"idle", "pumping"}
CanExecute(phase) == phase = "idle"

\* the posts waiting to be served
Queued == PendingPosts \ inFlight

Execute ==
    /\ CanExecute(facadePc)
    /\ Queued # {}
    /\ current' = CHOOSE i \in Queued : \A j \in Queued : i <= j
    /\ executeCalls' = executeCalls + 1
    /\ executeOrder' = Append(executeOrder, current')
    /\ \/ \E e \in FacadeErrors :
            /\ executeThrew' = e
            /\ Fail(e)
       \/ /\ facadePc' = "executing"
          /\ inFlight' = inFlight \cup {current'}
          /\ UNCHANGED <<connectionStatus, connectionStatusComplete,
                         activityEmitted, activityComplete, postActivity,
                         executeThrew, cachedError, pumped>>
    /\ UNCHANGED <<engineVars, factoryVars>>

\* the promise of execute settles: with the turn's stream, or rejected
ExecuteSettles ==
    /\ facadePc = "executing"
    /\ \/ \E e \in FacadeErrors :
            /\ executeThrew' = e
            /\ Fail(e)
       \/ /\ facadePc' = "pumping"
          /\ pumped' = 0
          /\ UNCHANGED <<connectionStatus, connectionStatusComplete,
                         activityEmitted, activityComplete, postActivity,
                         executeThrew, cachedError, inFlight>>
    /\ UNCHANGED <<current, executeCalls, executeOrder>>
    /\ UNCHANGED <<engineVars, factoryVars>>

\* one iteration of the turn's stream: an activity is republished, the
\* stream throws, or it is over and the post succeeds
PumpTurn ==
    /\ facadePc = "pumping"
    /\ \/ /\ pumped < MaxPumped
          /\ pumped' = pumped + 1
          /\ activityEmitted' =
               Append(activityEmitted, Republished(current, pumped + 1))
          /\ UNCHANGED <<facadePc, connectionStatus,
                         connectionStatusComplete, activityComplete,
                         postActivity, current, executeThrew, cachedError,
                         inFlight>>
       \/ \E e \in FacadeErrors :
            /\ executeThrew' = e
            /\ Fail(e)
            /\ UNCHANGED current
       \/ /\ facadePc' = "idle"
          /\ postActivity' = [postActivity EXCEPT ![current] = Succeeded]
          /\ current' = 0
          /\ pumped' = 0
          /\ inFlight' = inFlight \ {current}
          /\ UNCHANGED <<connectionStatus, connectionStatusComplete,
                         activityEmitted, activityComplete, executeThrew,
                         cachedError>>
    /\ UNCHANGED <<executeCalls, executeOrder>>
    /\ UNCHANGED <<engineVars, factoryVars>>

NextFacade ==
    \/ Subscribe
    \/ StartResolves
    \/ PumpInitialActivities
    \/ PostActivity
    \/ Execute
    \/ ExecuteSettles
    \/ PumpTurn

SpecFacade == Init /\ [][NextFacade]_vars

(***************************************************************************)
(* Several conversations of one factory: every call of the start function  *)
(* and every turn of every conversation may interleave at each await.  The *)
(* retries of a request and the hops of a turn are not counted here.       *)
(***************************************************************************)
\* const api = new DirectToEngineServerSentEventsChatAdapterAPI(strategy,
\* init) inside the start function: the c-th call constructs the c-th engine
NewEngine_Once(c) == 1
NewEngine(c) == c

\* the id under which the server knows the conversation it opened for the
\* c-th start request: Id1, Id2 and so on
ServerIdFor(c) == <<"c", ToString(c)>>

\* the start function: a new engine, whose #conversationId is undefined
StartConversationOf(c) ==
    /\ conversations[c].pc = "none"
    /\ api' = [api EXCEPT ![NewEngine(c)] = Undefined]
    /\ conversations' =
         [conversations EXCEPT ![c] = [@ EXCEPT !.pc = "created",
                                                !.kind = "start"]]
    /\ UNCHANGED <<sent, engineVars, facadeVars>>

\* the handle the last stream of the conversation returned is invoked
InvokeHandleOf(c) ==
    /\ conversations[c].handle = "live"
    /\ conversations' =
         [conversations EXCEPT ![c] =
            [@ EXCEPT !.handle = IF ObsoletedAfterCall(FALSE)
                                 THEN "obsoleted" ELSE "live",
                      !.pc = "created",
                      !.kind = "execute"]]
    /\ UNCHANGED <<api, sent, engineVars, facadeVars>>

\* the first next() on the stream: executeTurn checks the id of its engine,
\* then the strategy names the transport
PullOf(c) ==
    /\ conversations[c].pc = "created"
    /\ IF /\ conversations[c].kind = "execute"
          /\ MustStartFirst(api[NewEngine(c)])
       THEN conversations' =
              [conversations EXCEPT ![c] = [@ EXCEPT !.pc = "failed"]]
       ELSE \E transport \in Transports :
              conversations' =
                [conversations EXCEPT ![c] =
                   [@ EXCEPT !.pc = "request", !.transport = transport]]
    /\ UNCHANGED <<api, sent, engineVars, facadeVars>>

\* one fetch() of a conversation and the answer to it: a failure that is
\* retried or given up, a BotResponse, or an event stream
FetchOf(c) ==
    LET id == api[NewEngine(c)]
        baseURL == IF conversations[c].kind = "start" THEN StartBaseURL
                                                       ELSE ExecuteBaseURL
        rest == conversations[c].transport = "rest"
    IN  /\ conversations[c].pc = "request"
        /\ sent' =
             [issued |-> TRUE,
              conversation |-> c,
              first |-> ~conversations[c].requested,
              pathname |->
                resolveURLWithQueryAndHash(RelativeURL(id), baseURL).pathname,
              conversationIdHeader |-> ConversationIdHeader(id),
              idAtIssue |-> id]
        /\ \/ \E next \in {"request", "failed"} :
                /\ conversations' =
                     [conversations EXCEPT ![c] =
                        [@ EXCEPT !.pc = next, !.requested = TRUE]]
                /\ UNCHANGED api
           \/ /\ rest
              /\ \E responseId \in {Undefined, ServerIdFor(c)},
                    action \in {"continue", "waiting"} :
                   /\ api' = [api EXCEPT ![NewEngine(c)] =
                                AdoptFromBotResponse(id, responseId)]
                   /\ conversations' =
                        [conversations EXCEPT ![c] =
                           IF action = "continue"
                           THEN [@ EXCEPT !.requested = TRUE]
                           ELSE [@ EXCEPT !.requested = TRUE,
                                          !.pc = "done",
                                          !.handle = "live"]]
           \/ /\ ~rest
              /\ conversations' =
                   [conversations EXCEPT ![c] =
                      [@ EXCEPT !.pc = "deliver", !.requested = TRUE]]
              /\ UNCHANGED api
        /\ UNCHANGED <<engineVars, facadeVars>>

\* one event of the SSE body of a conversation goes through the transform,
\* or the body is over
ReadOf(c) ==
    LET id == api[NewEngine(c)]
    IN  /\ conversations[c].pc = "deliver"
        /\ \/ /\ conversations' =
                   [conversations EXCEPT ![c] =
                      [@ EXCEPT !.pc = "done", !.handle = "live"]]
              /\ UNCHANGED api
           \/ \E conversation \in {Absent, Undefined, ServerIdFor(c)} :
                IF ~Truthy(id) /\ conversation = Absent
                THEN /\ conversations' =
                          [conversations EXCEPT ![c] =
                             [@ EXCEPT !.pc = "failed"]]
                     /\ UNCHANGED api
                ELSE /\ api' = [api EXCEPT ![NewEngine(c)] =
                                  AdoptFromActivity(id, conversation)]
                     /\ UNCHANGED conversations
        /\ UNCHANGED <<sent, engineVars, facadeVars>>

NextFactory ==
    \E c \in Conversations :
      \/ StartConversationOf(c)
      \/ InvokeHandleOf(c)
      \/ PullOf(c)
      \/ FetchOf(c)
      \/ ReadOf(c)

SpecFactory == Init /\ [][NextFactory]_vars

(***************************************************************************)
(* Properties.                                                             *)
(***************************************************************************)
Handles == DOMAIN obsoleted
Range(f) == {f[i] : i \in DOMAIN f}

\* C1: the first invocation of a next-turn handle calls the engine's
\* executeTurn once; every later invocation of that handle, also one made
\* while the first is still pending, rejects with the obsoletion message and
\* does not call executeTurn.
C1_HandleIsSingleUse ==
    [][\A h \in Handles :
         invocations'[h] = invocations[h] + 1 =>
           IF invocations[h] = 0
           THEN /\ engineCalls'[h] = 1
                /\ rejections'[h] = 0
                /\ kind' = "execute" /\ pc' = "awaitWrap"
           ELSE /\ engineCalls' = engineCalls
                /\ rejections'[h] = rejections[h] + 1
                /\ handleError' = ObsoletedError
                /\ UNCHANGED <<kind, pc, turnNo, prepareCalls, lastRequest>>
      ]_vars

\* a handle is invoked again while its first invocation is still pending
C1_Witness ==
    \E h \in Handles :
      /\ pc = "awaitWrap"
      /\ h = turnNo
      /\ engineCalls[h] = 1
      /\ rejections[h] >= 1

\* C2: a wrapped stream that ends without error has yielded all activities
\* of the engine stream of its turn, in order, and only then finishes with a
\* new handle that has never been invoked; handles come from nowhere else.
C2_StreamEndsWithFreshHandle ==
    /\ Len(obsoleted) = IF pc = "done" THEN turnNo + 1 ELSE turnNo
    /\ pc = "done" =>
         /\ delivered = engineOut
         /\ buffer = <<>>
         /\ \A i \in 1..Len(delivered) : delivered[i].text = i
         /\ ~obsoleted[turnNo + 1]
         /\ invocations[turnNo + 1] = 0

\* a user turn of several activities has ended and handed out its handle
C2_Witness ==
    /\ pc = "done"
    /\ kind = "execute"
    /\ Len(delivered) >= 2

\* C3: at most one handle of the conversation is produced and not obsoleted.
C3_AtMostOneLiveHandle ==
    Cardinality({h \in Handles : ~obsoleted[h]}) <= 1

\* a second handle exists and the first one is obsoleted
C3_Witness ==
    /\ Len(obsoleted) >= 2
    /\ obsoleted[1]
    /\ ~obsoleted[2]

\* C4: the first pull of an executeTurn stream while the conversation id is
\* unset fails with the "must be called before" message, without consulting
\* prepareExecuteTurn and without any HTTP request, in that pull or later.
C4_ExecuteTurnNeedsId ==
    /\ [][(kind = "execute" /\ pc = "created" /\ ~Truthy(conversationId)
             /\ pc' # "created")
          => /\ pc' = "failed"
             /\ error'.message = MustStartError
             /\ prepareCalls' = prepareCalls
             /\ lastRequest' = lastRequest]_vars
    /\ [](error.message = MustStartError =>
            /\ pc = "failed"
            /\ prep = NoPrep
            /\ attempts = 0
            /\ prepareCalls.execute < turnNo)

\* a user turn after a start turn that learned no id has failed this way
C4_Witness ==
    /\ pc = "failed"
    /\ kind = "execute"
    /\ turnNo = 1
    /\ error.message = MustStartError
    /\ ~Truthy(conversationId)

\* C5 (as claimed): once the conversation id is set it never changes, also
\* when a later REST response or SSE activity carries a different id.
C5_IdNeverChanges ==
    [][Truthy(conversationId) => conversationId' = conversationId]_vars

FirstRequest(request) == request.kind = "start" /\ request.numTurn = 0

\* C6 (as claimed): the first request of a conversation carries no
\* x-ms-conversationid header and every later request carries it with the
\* learned conversation id.
C6_HeaderOnEveryLaterRequest ==
    lastRequest.issued =>
      IF FirstRequest(lastRequest)
      THEN lastRequest.conversationIdHeader = Absent
      ELSE /\ lastRequest.conversationIdHeader # Absent
           /\ lastRequest.conversationIdHeader = lastRequest.idAtIssue

\* C6 (amended): the first request of a conversation carries no
\* x-ms-conversationid header; a later request carries the header exactly
\* when the engine has a conversation id at that moment, with that id as
\* value, so every request of a user turn carries it and a REST continuation
\* hop issued before any id was learned carries none.
C6_HeaderIffIdKnown ==
    lastRequest.issued =>
      /\ FirstRequest(lastRequest) =>
           lastRequest.conversationIdHeader = Absent
      /\ Truthy(lastRequest.idAtIssue) =>
           lastRequest.conversationIdHeader = lastRequest.idAtIssue
      /\ ~Truthy(lastRequest.idAtIssue) =>
           lastRequest.conversationIdHeader = Absent
      /\ lastRequest.kind = "execute" =>
           /\ Truthy(lastRequest.idAtIssue)
           /\ lastRequest.conversationIdHeader # Absent

\* a request of a user turn carries the id learned in the start turn
C6_Witness ==
    /\ lastRequest.issued
    /\ lastRequest.kind = "execute"
    /\ lastRequest.conversationIdHeader = Id1
    /\ conversationId = Id1

BaseURLOf(request) ==
    IF request.kind = "start" THEN StartBaseURL ELSE ExecuteBaseURL

\* C7 (as claimed): an attempt issued while the id is unset goes to
\* conversations/ and one issued while it is set goes to conversations/{id}
\* with exactly that id, relative to the baseURL of the turn.
C7_PathCarriesExactId ==
    lastRequest.issued =>
      lastRequest.url.pathname =
        BaseURLOf(lastRequest).dir \o <<"conversations/">> \o
          (IF Truthy(lastRequest.idAtIssue) THEN lastRequest.idAtIssue
                                            ELSE <<>>)

IsTransportFailure(e) ==
    \/ e.kind = "network"
    \/ e.kind = "status" /\ e.response >= 500

\* the current request was given up and all its attempts failed at the
\* transport level
AllAttemptsFailedInTransport ==
    /\ pc = "failed"
    /\ errors # <<>>
    /\ \A i \in DOMAIN errors : IsTransportFailure(errors[i])

\* C8 (as claimed): a request whose every attempt fails at the transport
\* level is attempted exactly 5 times and the stream then fails with the last
\* error; no request is attempted more than 5 times.
C8_FiveAttemptsThenLastError ==
    /\ attempts <= 5
    /\ AllAttemptsFailedInTransport =>
         /\ attempts = 5
         /\ error = errors[Len(errors)]

\* C8 (amended): a request whose every attempt fails at the transport level
\* is attempted exactly 5 times and the stream then fails with the error of
\* one of these attempts, the one whose message occurred most often (the
\* last error when all five failed alike); no request is attempted more than
\* 5 times.
C8_FiveAttemptsThenMainError ==
    /\ attempts <= 5
    /\ AllAttemptsFailedInTransport =>
         /\ attempts = 5
         /\ Len(errors) = 5
         /\ error \in Range(errors)
         /\ MessageCount(errors, 5) >= 3 => error = errors[5]
         /\ (\A i \in DOMAIN errors : errors[i].message = errors[1].message)
              => error = errors[5]

\* five transport failures of two kinds: three 500 responses, then two
\* network errors
C8_Witness ==
    /\ AllAttemptsFailedInTransport
    /\ attempts = 5
    /\ errors[3].kind = "status"
    /\ errors[5].kind = "network"
    /\ error.kind = "status"

\* C9: an attempt that fails while the most recent response of its request
\* has a status below 500 is the last attempt of the request and its error
\* is what the stream fails with; a 404 on the first attempt makes 1 attempt.
C9_NoRetryBelow500 ==
    \A i \in DOMAIN errors :
      (errors[i].response # 0 /\ errors[i].response < 500) =>
        /\ i = Len(errors)
        /\ attempts = i
        /\ pc = "failed"
        /\ error = errors[i]

\* the first attempt of a request was answered 404 and the stream failed
C9_Witness ==
    /\ pc = "failed"
    /\ attempts = 1
    /\ error.kind = "status"
    /\ error.response = 404

ProtocolShapeKinds == {"json", "shape", "contentType", "noBody"}

Fetches == attempts' = attempts + 1

\* the request lastRequest was issued by the current turn
OfThisTurn(request) ==
    request.issued /\ request.kind = kind /\ request.turnNo = turnNo

Consulted ==
    /\ pc \notin {"none", "awaitWrap", "created"}
    /\ error.kind # "usage"

\* C12: the strategy is consulted once per turn, at the first pull and
\* before any HTTP request: prepareStartNewConversation once by the start
\* turn and never by a user turn, prepareExecuteTurn once by each user turn
\* and never by the start turn; retries and continuation hops do not consult
\* it again, and the requests of a turn use what it returned for that turn.
C12_StrategyOncePerTurn ==
    /\ [](/\ prepareCalls.start =
               IF kind = "none" \/ (kind = "start" /\ ~Consulted)
               THEN 0 ELSE 1
          /\ prepareCalls.execute =
               IF kind = "execute"
               THEN turnNo - 1 + (IF Consulted THEN 1 ELSE 0)
               ELSE 0
          /\ attempts > 0 => Consulted /\ prep # NoPrep
          /\ prep # NoPrep =>
               prep.baseURL = (IF kind = "start" THEN StartBaseURL
                                                 ELSE ExecuteBaseURL))
    /\ [][/\ prepareCalls' # prepareCalls =>
               /\ pc = "created"
               /\ pulls = 0 /\ pulls' = 1
               /\ attempts = 0
               /\ ~OfThisTurn(lastRequest)
          /\ Fetches =>
               /\ prepareCalls' = prepareCalls
               /\ prep' = prep
               /\ lastRequest'.url =
                    resolveURLWithQueryAndHash(RelativeURL(conversationId),
                                               prep.baseURL)
         ]_vars

C12_Witness ==
    /\ kind = "execute"
    /\ prepareCalls = [start |-> 1, execute |-> 1]
    /\ OfThisTurn(lastRequest)
    /\ lastRequest.numTurn = 1
    /\ attempts >= 2

\* C13: every request of a turn, retries and continuation hops included,
\* carries the query string and the fragment of the baseURL the strategy
\* returned for that turn, unchanged.
C13_QueryAndHashOfTheTurn ==
    lastRequest.issued =>
      /\ lastRequest.url.search = BaseURLOf(lastRequest).search
      /\ lastRequest.url.hash = BaseURLOf(lastRequest).hash
      /\ OfThisTurn(lastRequest) =>
           /\ lastRequest.url.search = prep.baseURL.search
           /\ lastRequest.url.hash = prep.baseURL.hash

C13_Witness ==
    /\ OfThisTurn(lastRequest)
    /\ kind = "execute"
    /\ lastRequest.numTurn = 1
    /\ attempts >= 2
    /\ lastRequest.idAtIssue = IdQ
    /\ lastRequest.url.search = <<"?", "api=execute">>
    /\ lastRequest.url.hash = <<"#", "2">>

\* the body of the current turn: what the strategy returned, merged with
\* emitStartConversationEvent or with the activity
TurnBody ==
    StrategyBody \cup
      (IF kind = "start"
       THEN {<<"emitStartConversationEvent",
               IF emitStartConversationEvent THEN "true" ELSE "false">>}
       ELSE {<<"activity", userActivity>>})

HopEnds ==
    /\ pc = "deliver"
    /\ prep.transport = "rest"
    /\ buffer = <<>>
    /\ pc' # pc

\* the consumer got the activities of all responses of the REST turn so far,
\* in order, but for those of the current response still to be yielded
YieldsTheConcatenation ==
    prep.transport = "rest" =>
      /\ delivered \o buffer = received
      /\ pc = "done" => delivered = received

\* C15 (as claimed): a REST turn issues another hop if and only if the
\* previous hop's response has action "continue", terminates at the first
\* response whose action is not "continue", and yields exactly the
\* concatenation of the activities of all hops, in order.
C15_AnotherHopIffContinue ==
    /\ []YieldsTheConcatenation
    /\ [][/\ HopEnds =>
               IF botAction = "continue"
               THEN pc' = "request" /\ numTurn' = numTurn + 1
               ELSE pc' = "done" /\ numTurn' = numTurn
          /\ (Fetches /\ prep.transport = "rest" /\ numTurn > 0) =>
               botAction = "continue"
         ]_vars

\* C15 (amended): a REST turn issues another hop if and only if the
\* previous hop's response has action "continue" and fewer than MAX_TURN
\* hops have been made; it terminates at the first response whose action is
\* not "continue" or with hop number MAX_TURN, and yields exactly the
\* concatenation of the activities of all hops, in order.
C15_AnotherHopIffContinueBelowCeiling ==
    /\ []YieldsTheConcatenation
    /\ [][/\ HopEnds =>
               IF botAction = "continue" /\ numTurn + 1 < MAX_TURN
               THEN pc' = "request" /\ numTurn' = numTurn + 1
               ELSE pc' = "done" /\ numTurn' = numTurn
          /\ (Fetches /\ prep.transport = "rest" /\ numTurn > 0) =>
               botAction = "continue"
         ]_vars

C15_Witness ==
    /\ pc = "done"
    /\ prep.transport = "rest"
    /\ botAction = "waiting"
    /\ lastRequest.numTurn = MaxHops - 1
    /\ OfThisTurn(lastRequest)
    /\ Len(delivered) = MaxHops * MaxActs
    /\ delivered = received

\* C16: a REST turn makes at most MAX_TURN successful hops, also against a
\* server that answers "continue" forever; when the hop that reaches the
\* ceiling is over, the turn stream ends without error, without another
\* request, and the wrapped stream returns a fresh next-turn handle.
C16_CeilingEndsTheTurn ==
    /\ [](numTurn < MAX_TURN /\ lastRequest.numTurn < MAX_TURN)
    /\ [][(HopEnds /\ numTurn = MAX_TURN - 1) =>
            /\ pc' = "done"
            /\ error' = NoError
            /\ ~Fetches
            /\ lastRequest' = lastRequest
            /\ Len(obsoleted') = Len(obsoleted) + 1
            /\ ~obsoleted'[Len(obsoleted')]
         ]_vars

C16_Witness ==
    /\ pc = "done"
    /\ kind = "execute"
    /\ OfThisTurn(lastRequest)
    /\ lastRequest.numTurn = MAX_TURN - 1
    /\ botAction = "continue"
    /\ error = NoError
    /\ ~obsoleted[Len(obsoleted)]

SSETurn == prep.transport = "server sent events"

\* the events of log that precede its first "end" event
BeforeEnd(log) ==
    LET ends == {i \in 1..Len(log) : log[i].event = "end"}
    IN  IF ends = {} THEN log
        ELSE SubSeq(log, 1, (CHOOSE i \in ends : \A j \in ends : i <= j) - 1)

IsDecodableActivity(ev) == ev.event = "activity" /\ ev.data.json

\* the JSON-decoded data of the "activity" events of log, in stream order
DecodedActivities(log) ==
    LET events == SelectSeq(log, IsDecodableActivity)
    IN  [i \in 1..Len(events) |-> Activity(i, events[i].data.conversation)]

\* C17 (as claimed): in SSE mode the activities yielded for a turn are
\* exactly the JSON-decoded data of the "activity" events that precede the
\* first "end" event or the end of the stream, in stream order; "end" and
\* events of other names yield nothing, nothing is read after "end", and a
\* stream that closes without "end" ends the turn without error.
C17_YieldsTheActivityEvents ==
    SSETurn =>
      /\ delivered = DecodedActivities(BeforeEnd(eventLog))
      /\ \A i \in 1..Len(eventLog) :
           eventLog[i].event = "end" => i = Len(eventLog) /\ pc = "done"
      /\ pc = "done" => error = NoError

\* C18: in SSE mode no request is issued once the request of the turn was
\* accepted, however many activities follow, and an error raised while the
\* body is consumed fails the turn at once, without another request.
C18_OneAcceptedRequest ==
    [][/\ (SSETurn /\ pc \in {"deliver", "yielded", "done", "failed"}
             /\ kind' = kind /\ turnNo' = turnNo) =>
            /\ ~Fetches
            /\ lastRequest' = lastRequest
            /\ pc' # "request"
       /\ (SSETurn /\ Fetches) => eventLog = <<>> /\ delivered = <<>>
       /\ (SSETurn /\ pc = "deliver" /\ error' # error) =>
            /\ pc' = "failed"
            /\ error'.kind \in {"sseJson", "typeError"}
            /\ delivered' = delivered
      ]_vars

C18_Witness ==
    /\ SSETurn
    /\ pc = "failed"
    /\ error.kind = "sseJson"
    /\ Len(delivered) = 1
    /\ OfThisTurn(lastRequest)
    /\ attempts = 2

\* C19 (as claimed): in SSE mode an "activity" event whose activity carries
\* no conversation field is yielded unchanged and the turn does not fail,
\* also while the engine's conversation id is still unset.
C19_NoConversationPassesThrough ==
    [][(/\ SSETurn
        /\ eventLog' # eventLog
        /\ IsDecodableActivity(eventLog'[Len(eventLog')])
        /\ eventLog'[Len(eventLog')].data.conversation = Absent) =>
         /\ pc' = "yielded"
         /\ error' = NoError
         /\ delivered' = Append(delivered,
                                Activity(Len(delivered) + 1, Absent))
         /\ conversationId' = conversationId
      ]_vars

\* C20: if execute throws while a posted activity is served, the subscriber
\* of that post receives exactly that error, connectionStatus$ emits
\* FailedToConnect and completes, and activity$ completes; afterwards no
\* activity and no status value is emitted.
C20_ExecuteThrowsIsTerminal ==
    [][/\ executeThrew' # executeThrew =>
            /\ current' \in DOMAIN postActivity
            /\ postActivity[current'] = Pending
            /\ postActivity'[current'] = Errored(executeThrew')
            /\ connectionStatus' =
                 Append(connectionStatus, "FailedToConnect")
            /\ ~connectionStatusComplete /\ connectionStatusComplete'
            /\ ~activityComplete /\ activityComplete'
            /\ activityEmitted' = activityEmitted
       /\ executeThrew # "" =>
            /\ connectionStatus' = connectionStatus
            /\ activityEmitted' = activityEmitted
            /\ connectionStatusComplete' /\ activityComplete'
            /\ executeThrew' = executeThrew
      ]_vars

C20_Witness ==
    /\ executeThrew = "artificial"
    /\ executeCalls = 1
    /\ postActivity[1] = Errored("artificial")
    /\ connectionStatus =
         <<"Uninitialized", "Connecting", "Online", "FailedToConnect">>
    /\ connectionStatusComplete
    /\ activityEmitted = <<>>
    /\ activityComplete

\* C21: once the facade has failed, every postActivity call errors at once
\* with the error of the first failure, and execute is not called again.
C21_PostAfterFailureGetsCachedError ==
    [][facadePc = "failed" =>
         /\ executeCalls' = executeCalls
         /\ executeOrder' = executeOrder
         /\ cachedError' = cachedError
         /\ cachedError = executeThrew
         /\ Len(postActivity') > Len(postActivity) =>
              postActivity'[Len(postActivity')] = Errored(executeThrew)
         /\ \A i \in DOMAIN postActivity : postActivity'[i] = postActivity[i]
      ]_vars

C21_Witness ==
    /\ facadePc = "failed"
    /\ executeCalls = 1
    /\ Len(postActivity) = 3
    /\ \A i \in 1..3 : postActivity[i] = Errored("artificial")

StatusOrder == <<"Uninitialized", "Connecting", "Online", "FailedToConnect">>

IsPrefix(s, t) == Len(s) <= Len(t) /\ s = SubSeq(t, 1, Len(s))

C23_TurnsAreSerialised ==
    /\ Cardinality(inFlight) <= 1
    /\ \A i \in DOMAIN executeOrder : executeOrder[i] = i
    /\ \A i \in DOMAIN activityEmitted :
         /\ activityEmitted[i].turn \in {0} \cup Range(executeOrder)
         /\ i > 1 =>
              \/ /\ activityEmitted[i].turn = activityEmitted[i - 1].turn
                 /\ activityEmitted[i].n = activityEmitted[i - 1].n + 1
              \/ /\ activityEmitted[i].turn > activityEmitted[i - 1].turn
                 /\ activityEmitted[i].n = 1
    /\ facadePc \in {"executing", "pumping"} => inFlight = {current}

C23_Witness ==
    /\ facadePc = "pumping"
    /\ current = 2
    /\ Len(postActivity) = 3
    /\ postActivity[1] = Succeeded
    /\ postActivity[3] = Pending
    /\ inFlight = {2}
    /\ \E i \in DOMAIN activityEmitted :
         i > 1 /\ activityEmitted[i].turn = 2 /\ activityEmitted[i - 1].turn = 1

\* C24 (as claimed): in REST mode every continuation hop is POSTed to
\* conversations/{conversationId}/continue and carries the static body
\* fields of the strategy, without emitStartConversationEvent or activity.
C24_ContinuationEndpointAndBody ==
    (OfThisTurn(lastRequest) /\ lastRequest.transport = "rest"
       /\ lastRequest.numTurn >= 1) =>
      /\ lastRequest.url.pathname =
           BaseURLOf(lastRequest).dir \o <<"conversations/">> \o
             (IF Truthy(lastRequest.idAtIssue) THEN lastRequest.idAtIssue
                                               ELSE <<>>) \o <<"/continue">>
      /\ lastRequest.body = StrategyBody

C26_FailureAtLaterHop ==
    [][/\ (pc # "failed" /\ pc' = "failed" /\ prep.transport = "rest"
             /\ numTurn >= 1) =>
            /\ pc = "request"
            /\ received' = received
            /\ delivered' = received
            /\ pulls' = pulls
            /\ pulls = Len(delivered) + 1
            /\ error' # NoError
            /\ obsoleted' = obsoleted
       /\ pc = "failed" =>
            /\ pc' = "failed"
            /\ delivered' = delivered
            /\ error' = error
            /\ Len(obsoleted') = Len(obsoleted)
      ]_vars

C26_Witness ==
    /\ pc = "failed"
    /\ prep.transport = "rest"
    /\ numTurn = 1
    /\ Len(delivered) = 1
    /\ delivered = received
    /\ pulls = Len(delivered) + 2

\* every failure of the current request so far was a network error or a
\* 5xx response
OnlyTransportFailures(errs) ==
    \A i \in 1..Len(errs) : IsTransportFailure(errs[i])

\* C27: transient transport failures are masked.  While a request has
\* suffered at most 4 failures, all of them network errors or 5xx responses
\* in any order, it is attempted again and the consumer sees no error; when
\* an attempt then succeeds the turn goes on to deliver the response, and a
\* turn that is delivering or has ended carries no error.
C27_TransientFailuresAreMasked ==
    /\ [](pc \in {"request", "deliver", "yielded", "done"} => error = NoError)
    /\ [][Fetches =>
            /\ (/\ Len(errors') = Len(errors) + 1
                /\ Len(errors') <= RETRY_COUNT
                /\ OnlyTransportFailures(errors')) =>
                 /\ pc' = "request"
                 /\ error' = NoError
                 /\ delivered' = delivered
            /\ (OnlyTransportFailures(errors) /\ errors' = <<>>) =>
                 /\ Len(errors) <= RETRY_COUNT
                 /\ pc' = "deliver"
                 /\ error' = NoError
         ]_vars

C27_Witness ==
    /\ pc = "done"
    /\ attempts = RETRY_COUNT + 1
    /\ currentResponse = 200
    /\ Len(delivered) >= 1
    /\ error = NoError

\* the current stream failed in the request phase: the request was given up
\* with its failed attempts on record
RequestPhaseFailed == pc = "failed" /\ errors # <<>>

\* what telemetry gets for a failure that exhausted the retries
ReportsExhaustion ==
    /\ Len(trackException) = 1
    /\ trackException[1].error = error
    /\ trackException[1].handledAt = "withRetries"
    /\ trackException[1].retryCount = "5"

\* C28: with a telemetry client configured, a request phase that fails after
\* all 5 attempts reports exactly one trackException tagged handledAt
\* 'withRetries' and retryCount '5'; as long as no request phase has failed
\* nothing is reported, and a request given up after fewer than 5 attempts
\* is not reported as retry-exhausted.
C28_TelemetryOnlyWhenExhausted ==
    /\ (RequestPhaseFailed /\ Len(errors) = RETRY_COUNT + 1) =>
         ReportsExhaustion
    /\ ~RequestPhaseFailed => trackException = <<>>
    /\ (RequestPhaseFailed /\ Len(errors) < RETRY_COUNT + 1) =>
         \A i \in DOMAIN trackException :
           trackException[i].retryCount # "5"

\* C29: the first invocation of a handle obsoletes it whatever becomes of
\* the turn, and a stream that fails yields no handle: once a turn has
\* failed every handle of the conversation is obsoleted, the conversation
\* stays failed, no engine call is made and no request is issued for it.
C29_NoHandleAfterFailure ==
    /\ [](pc = "failed" => \A h \in Handles : obsoleted[h])
    /\ [][/\ \A h \in Handles :
               (~obsoleted[h] /\ invocations'[h] = invocations[h] + 1) =>
                 obsoleted'[h]
          /\ pc' = "failed" => Len(obsoleted') = Len(obsoleted)
          /\ pc = "failed" =>
               /\ pc' = "failed"
               /\ ~Fetches
               /\ lastRequest' = lastRequest
               /\ engineCalls' = engineCalls
               /\ obsoleted' = obsoleted
         ]_vars

C29_Witness ==
    /\ pc = "failed"
    /\ kind = "execute"
    /\ turnNo = 2
    /\ Len(obsoleted) = 2
    /\ rejections[2] = 1
    /\ handleError = ObsoletedError

\* C30: the retry budget is per request.  Every REST hop starts with no
\* attempt made, no response and no failure on record and makes at most 5
\* attempts, so h hops make at most 5 * h; at a later hop a network error
\* or 5xx is retried while fewer than 5 attempts were made, and a request
\* is given up early only on a response below 500 of its own attempt.
C30_RetryBudgetPerHop ==
    /\ [](/\ attempts <= RETRY_COUNT + 1
          /\ Len(errors) <= attempts)
    /\ [][/\ (HopEnds /\ pc' = "request") =>
               /\ numTurn' = numTurn + 1
               /\ attempts' = 0
               /\ currentResponse' = 0
               /\ errors' = <<>>
          /\ (Fetches /\ prep.transport = "rest" /\ numTurn >= 1
                /\ Len(errors') = Len(errors) + 1) =>
               /\ Len(errors') = attempts'
               /\ (/\ IsTransportFailure(errors'[Len(errors')])
                   /\ attempts' <= RETRY_COUNT) => pc' = "request"
               /\ (pc' = "failed" /\ attempts' <= RETRY_COUNT) =>
                    /\ errors'[Len(errors')].kind # "network"
                    /\ currentResponse' = errors'[Len(errors')].response
                    /\ currentResponse' < 500
         ]_vars

C30_Witness ==
    /\ prep.transport = "rest"
    /\ numTurn = 1
    /\ pc = "deliver"
    /\ attempts = RETRY_COUNT + 1
    /\ currentResponse = 200
    /\ error = NoError

\* C31: conversations of one factory are isolated.  Each engine only ever
\* holds the id of its own conversation; the first request of a
\* conversation goes to conversations/ without an id or header, whatever
\* the other conversations have learned; and every request carries no id or
\* the id of the conversation that issues it, however the turns interleave.
C31_ConversationsAreIsolated ==
    /\ \A c \in Conversations : api[c] \in {Undefined, ServerIdFor(c)}
    /\ sent.issued =>
         /\ sent.idAtIssue \in {Undefined, ServerIdFor(sent.conversation)}
         /\ sent.conversationIdHeader \in
              {Absent, ServerIdFor(sent.conversation)}
         /\ sent.pathname \in
              {<<"/", "conversations/">>,
               <<"/", "conversations/">> \o ServerIdFor(sent.conversation)}
         /\ sent.first =>
              /\ sent.idAtIssue = Undefined
              /\ sent.conversationIdHeader = Absent
              /\ sent.pathname = <<"/", "conversations/">>

C31_Witness ==
    /\ sent.issued
    /\ sent.conversation = 2
    /\ sent.first
    /\ sent.conversationIdHeader = Absent
    /\ api[1] = ServerIdFor(1)
    /\ conversations[1].kind = "execute"
    /\ conversations[1].pc = "request"
    /\ conversations[1].requested

====
